---- MODULE Spec2Model ----
(***************************************************************************)
(* Model of lib/website.py: build_website and the three page writers       *)
(* write_main_page, write_stream_topics and write_topic_messages, plus     *)
(* write_css.  The collaborators imported from .url, .files and .html are  *)
(* modelled from their documented contracts.                               *)
(*                                                                         *)
(* A file is a sequence of chunks, one per outfile.write call; every chunk *)
(* is a tuple whose first element is a tag.  The output tree `disk` maps   *)
(* the paths that exist to their contents.                                 *)
(***************************************************************************)
EXTENDS Integers, Sequences, FiniteSets, TLC

\* ------------------------------------------------------------------ bounds
MaxStreams == 2
MaxTopics == 2
MaxMsgs == 2
MaxBuilds == 2

\* Raw stream and topic names; they contain characters that are unsafe in
\* a path ("/", " ") and one that html.escape rewrites ("&").
Names == {"a/b", "a b", "Q&A"}

\* The sequences without repetition over S, of length at most n.
RECURSIVE InjSeqs(_, _)
InjSeqs(S, n) ==
    IF n = 0 THEN {<<>>}
    ELSE LET shorter == InjSeqs(S, n - 1)
             longer == {Append(s, x) : s \in shorter, x \in S}
         IN  shorter \cup {s \in longer : \A i, j \in 1..Len(s) : i < j => s[i] # s[j]}

\* ------------------------------------------------------- collaborators
\* .url.sanitize: the two encodings a sanitizer may use.  "encode" escapes
\* every unsafe character as ".XX"; "dash" replaces it by "-".
sanitize(mode, s) ==
    IF mode = "encode"
    THEN CASE s = "a/b" -> "a.2Fb"
           [] s = "a b" -> "a.20b"
           [] s = "Q&A" -> "Q.26A"
    ELSE CASE s = "a/b" -> "a-b"
           [] s = "a b" -> "a-b"
           [] s = "Q&A" -> "Q-A"

\* .url.sanitize_stream: the numeric id disambiguates the sanitized name.
sanitize_stream(mode, stream_name, stream_id) == <<stream_id, sanitize(mode, stream_name)>>

\* html.escape of the standard library: & < > " ' are replaced.
html_escape(s) == IF s = "Q&A" THEN "Q&amp;A" ELSE s

\* Stream ids are unique and stable.
StreamId(name) == CASE name = "a/b" -> 1 [] name = "a b" -> 2 [] name = "Q&A" -> 3

\* .files.open_main_page / open_stream_topics_page / open_topic_messages_page:
\* the path of each page.
main_page_path == <<"index.html">>
stream_page_path(ss) == <<"stream", ss>>
topic_page_path(ss, st) == <<"topic", ss, st>>

\* Opening a page for writing creates or truncates it.
open_page(d, path) == (path :> <<>>) @@ d

\* The number of messages the export holds for a sanitized topic name:
\* none, one, or as many as the bound allows.
MessageCount(st) ==
    CASE st \in {"a.2Fb", "a-b"} -> MaxMsgs
      [] st = "a.20b" -> 1
      [] OTHER -> 0

\* .files.read_zulip_messages_for_topic: keyed by the sanitized names; the
\* reader's order is not the order of the message ids.
read_zulip_messages_for_topic(ss, st) ==
    [i \in 1..MessageCount(st) |-> <<"msg", ss, st, MessageCount(st) + 1 - i>>]

\* .html fragment renderers.
last_updated_footer_html(info) == <<"last_updated", info.time>>
stream_list_page_html(strs) == <<"stream_list", strs>>
topic_list_page_html(stream_name, stream_url, topic_data) ==
    <<"topic_list", stream_name, stream_url, topic_data>>
archive_stream_url(ss) == <<"stream_url", ss>>
topic_page_links_html(ss, st, stream_name, topic_name) ==
    <<"topic_links", ss, st, stream_name, topic_name>>
format_message_html(stream_name, stream_id, topic_name, msg) ==
    <<"msg_html", stream_name, stream_id, topic_name, msg>>

\* shutil.copytree: creating the destination fails when it exists, unless
\* dirs_exist_ok; otherwise the source tree is layered onto the destination.
copytree(d, dst, dirs_exist_ok) ==
    IF dst \in DOMAIN d /\ ~dirs_exist_ok
    THEN [ok |-> FALSE, disk |-> d]
    ELSE [ok |-> TRUE, disk |-> (dst :> <<<<"asset_tree">>>>) @@ d]

\* shutil.copyfile overwrites the destination.
copyfile(d, src, dst) == (dst :> <<<<"copy_of", src>>>>) @@ d

\* --------------------------------------------------------------- the code
page_head_html == <<"page_head">>
page_footer_html == <<"page_footer">>

to_topic_page_head_html(title) == <<"topic_head", title>>

\* The asset directory copied before the loop over the streams.
build_website_steps_assets_first == <<"main", "css", "assets", "streams", "nojekyll">>

\* The order of the calls in the body of build_website.
build_website_steps == <<"main", "css", "streams", "assets", "nojekyll">>

\* The topic pages of a stream written before the stream's own page.
stream_body_steps_topics_first == <<"topics", "stream_page">>

\* The order of the calls in the body of the loop over the streams.
stream_body_steps == <<"stream_page", "topics">>

\* outfile.write: one more chunk at the end of the open file.
outfile_write(d, path, chunk) == [d EXCEPT ![path] = Append(@, chunk)]

\* A page writer that returns without closing its handle.
outfile_close_missing(handles, path) == handles

\* outfile.close releases the handle.
outfile_close(handles, path) == handles \ {path}

\* The four writes of write_main_page.
main_page_chunks(strs, footer) ==
    <<page_head_html, stream_list_page_html(strs), footer, page_footer_html>>

\* The four writes of write_stream_topics.
stream_page_chunks(stream_name, ss, topic_data, footer) ==
    <<page_head_html, topic_list_page_html(stream_name, archive_stream_url(ss), topic_data),
      footer, page_footer_html>>

\* The three writes of write_topic_messages that precede the messages.
topic_page_head_chunks(ss, st, stream_name, topic_name) ==
    << to_topic_page_head_html(<<html_escape(topic_name), html_escape(stream_name), "title">>),
       topic_page_links_html(ss, st, stream_name, topic_name),
       <<"style_link">> >>

\* The loop body without its second write.
message_chunks_no_separator(msg_html) == <<msg_html>>

\* The two writes of the body of the loop over the messages.
message_chunks(msg_html) == <<msg_html, <<"\n\n">> >>

\* The two footer arguments passed in each other's position.
topic_page_tail_chunks_swapped(footer, page_footer) == <<page_footer, footer>>

\* The two writes that end a topic page.
topic_page_tail_chunks(footer, page_footer) == <<footer, page_footer>>

\* copytree called without dirs_exist_ok.
copy_assets_no_exist_ok(d) == copytree(d, <<"assets">>, FALSE)

\* copytree(repo_root/assets, md_root/assets, dirs_exist_ok=True)
copy_assets(d) == copytree(d, <<"assets">>, TRUE)

RECURSIVE WriteAll(_, _, _)
WriteAll(d, path, chunks) ==
    IF chunks = <<>> THEN d
    ELSE WriteAll(outfile_write(d, path, Head(chunks)), path, Tail(chunks))

\* ------------------------------------------------------------------ state
VARIABLES
    export,            \* what read_zulip_stream_info finds under json_root
    mode,              \* the encoding the sanitizer uses
    pc, step, body,    \* position in build_website
    si, ti, mi,        \* positions of the three loops
    streams,           \* build_website's local
    date_footer_html,  \* build_website's local
    messages,          \* write_topic_messages's local
    disk,              \* the output tree
    open,              \* paths of the output handles that are open
    cur,               \* path of the handle of the running page writer
    log,               \* the calls made by the current build, in order
    opens,             \* the paths opened by the current build, in order
    complete,          \* pages closed by the current build, as they were closed
    last,              \* call whose page was closed last
    footerCalls,       \* calls of last_updated_footer_html in the current build
    build,             \* number of the current build
    snapshot,          \* the output tree at the end of the previous build
    failure            \* why the build stopped

vars == <<export, mode, pc, step, body, si, ti, mi, streams, date_footer_html,
          messages, disk, open, cur, log, opens, complete, last, footerCalls, build,
          snapshot, failure>>

input == <<export, mode>>

NoPath == <<>>
NoCall == [kind |-> "none", stream |-> "", topic |-> ""]
Call(k, s, t) == [kind |-> k, stream |-> s, topic |-> t]
EmptyTree == [p \in {} |-> <<>>]

Stream(name, topics) == [name |-> name, id |-> StreamId(name), topic_data |-> topics]

\* The topics of the i-th stream of an export: the stream at position i
\* holds the first Len(ts) - (i - 1) topics of ts, so that the streams of
\* one export differ in size and the later ones can be empty.
TopicsAt(ts, i) == SubSeq(ts, 1, IF Len(ts) >= i - 1 THEN Len(ts) - (i - 1) ELSE 0)

Exports ==
    {[time |-> 7, streams |-> [i \in 1..Len(ns) |-> Stream(ns[i], TopicsAt(ts, i))]] :
        ns \in InjSeqs(Names, MaxStreams), ts \in InjSeqs(Names, MaxTopics)}

\* Control point of the k-th call of build_website.
StepPc(k) ==
    IF k > Len(build_website_steps) THEN "done"
    ELSE CASE build_website_steps[k] = "main" -> "main_open"
           [] build_website_steps[k] = "css" -> "css"
           [] build_website_steps[k] = "streams" -> "stream_loop"
           [] build_website_steps[k] = "assets" -> "assets"
           [] build_website_steps[k] = "nojekyll" -> "nojekyll"

\* Control point of the b-th call of the stream loop's body.
BodyPc(b) ==
    IF b > Len(stream_body_steps) THEN "stream_loop"
    ELSE IF stream_body_steps[b] = "stream_page" THEN "stream_open" ELSE "topic_loop"

Init ==
    /\ export \in Exports
    /\ mode \in {"encode", "dash"}
    /\ pc = "start" /\ step = 0 /\ body = 0
    /\ si = 1 /\ ti = 1 /\ mi = 1
    /\ streams = <<>>
    /\ date_footer_html = <<"unset">>
    /\ messages = <<>>
    /\ disk = EmptyTree
    /\ open = {}
    /\ cur = NoPath
    /\ log = <<>>
    /\ opens = <<>>
    /\ complete = EmptyTree
    /\ last = NoCall
    /\ footerCalls = 0
    /\ build = 1
    /\ snapshot = EmptyTree
    /\ failure = "none"

\* A collaborator raises: the exception leaves build_website.
Raise ==
    /\ pc' = "failed"
    /\ failure' = "collaborator"

NextStep ==
    /\ step' = step + 1
    /\ pc' = StepPc(step + 1)

\* The body of the stream loop goes on to its next call; after the last
\* one the loop takes the next stream.
NextBody ==
    /\ body' = body + 1
    /\ pc' = BodyPc(body + 1)
    /\ si' = IF body + 1 > Len(stream_body_steps) THEN si + 1 ELSE si

\* stream_info = read_zulip_stream_info(json_root); streams; date_footer_html
ReadStreamInfo ==
    /\ pc = "start"
    /\ \/ /\ Raise
          /\ UNCHANGED <<step, streams, date_footer_html, footerCalls>>
       \/ /\ streams' = export.streams
          /\ date_footer_html' = last_updated_footer_html(export)
          /\ footerCalls' = footerCalls + 1
          /\ NextStep
          /\ UNCHANGED failure
    /\ UNCHANGED <<input, body, si, ti, mi, messages, disk, open, cur, log, opens,
                   complete, last, build, snapshot>>

\* write_main_page up to open_main_page
MainOpen ==
    /\ pc = "main_open"
    /\ log' = Append(log, Call("main", "", ""))
    /\ \/ /\ Raise
          /\ UNCHANGED <<disk, open, cur, opens>>
       \/ /\ disk' = open_page(disk, main_page_path)
          /\ open' = open \cup {main_page_path}
          /\ cur' = main_page_path
          /\ opens' = Append(opens, main_page_path)
          /\ pc' = "main_write"
          /\ UNCHANGED failure
    /\ UNCHANGED <<input, step, body, si, ti, mi, streams, date_footer_html, messages,
                   complete, last, footerCalls, build, snapshot>>

\* write_main_page from the first write to outfile.close()
MainWrite ==
    /\ pc = "main_write"
    /\ \/ /\ Raise
          /\ UNCHANGED <<step, disk, open, cur, complete, last>>
       \/ /\ disk' = WriteAll(disk, cur, main_page_chunks(streams, date_footer_html))
          /\ open' = outfile_close(open, cur)
          /\ complete' = (cur :> disk'[cur]) @@ complete
          /\ last' = Call("main", "", "")
          /\ cur' = NoPath
          /\ NextStep
          /\ UNCHANGED failure
    /\ UNCHANGED <<input, body, si, ti, mi, streams, date_footer_html, messages, log,
                   opens, footerCalls, build, snapshot>>

\* write_css(md_root)
WriteCss ==
    /\ pc = "css"
    /\ log' = Append(log, Call("css", "", ""))
    /\ disk' = copyfile(disk, "style.css", <<"style.css">>)
    /\ NextStep
    /\ UNCHANGED <<input, body, si, ti, mi, streams, date_footer_html, messages, open,
                   cur, opens, complete, last, footerCalls, build, snapshot, failure>>

\* for stream_name in streams
StreamLoop ==
    /\ pc = "stream_loop"
    /\ \/ /\ si <= Len(streams)
          /\ body' = 1
          /\ pc' = BodyPc(1)
          /\ UNCHANGED <<si, step>>
       \/ /\ si > Len(streams)
          /\ NextStep
          /\ UNCHANGED <<si, body>>
    /\ UNCHANGED <<input, ti, mi, streams, date_footer_html, messages, disk, open, cur,
                   log, opens, complete, last, footerCalls, build, snapshot, failure>>

\* The stream and the topic the loops stand at.
CurStream == streams[si]
CurTopic == CurStream.topic_data[ti]
CurSS == sanitize_stream(mode, CurStream.name, CurStream.id)
CurST == sanitize(mode, CurTopic)

\* write_stream_topics up to open_stream_topics_page
StreamOpen ==
    /\ pc = "stream_open"
    /\ log' = Append(log, Call("stream", CurStream.name, ""))
    /\ \/ /\ Raise
          /\ UNCHANGED <<disk, open, cur, opens>>
       \/ /\ disk' = open_page(disk, stream_page_path(CurSS))
          /\ open' = open \cup {stream_page_path(CurSS)}
          /\ cur' = stream_page_path(CurSS)
          /\ opens' = Append(opens, stream_page_path(CurSS))
          /\ pc' = "stream_write"
          /\ UNCHANGED failure
    /\ UNCHANGED <<input, step, body, si, ti, mi, streams, date_footer_html, messages,
                   complete, last, footerCalls, build, snapshot>>

\* write_stream_topics from archive_stream_url to outfile.close()
StreamWrite ==
    /\ pc = "stream_write"
    /\ \/ /\ Raise
          /\ UNCHANGED <<body, si, disk, open, cur, complete, last>>
       \/ /\ disk' = WriteAll(disk, cur, stream_page_chunks(CurStream.name, CurSS,
                                                           CurStream.topic_data, date_footer_html))
          /\ open' = outfile_close(open, cur)
          /\ complete' = (cur :> disk'[cur]) @@ complete
          /\ last' = Call("stream", CurStream.name, "")
          /\ cur' = NoPath
          /\ NextBody
          /\ UNCHANGED failure
    /\ UNCHANGED <<input, step, ti, mi, streams, date_footer_html, messages, log, opens,
                   footerCalls, build, snapshot>>

\* for topic_name in topic_data
TopicLoop ==
    /\ pc = "topic_loop"
    /\ \/ /\ ti <= Len(CurStream.topic_data)
          /\ pc' = "topic_open"
          /\ UNCHANGED <<body, si, ti>>
       \/ /\ ti > Len(CurStream.topic_data)
          /\ ti' = 1
          /\ NextBody
    /\ UNCHANGED <<input, step, mi, streams, date_footer_html, messages, disk, open, cur,
                   log, opens, complete, last, footerCalls, build, snapshot, failure>>

\* write_topic_messages up to the write of the stylesheet link
TopicOpen ==
    /\ pc = "topic_open"
    /\ log' = Append(log, Call("topic", CurStream.name, CurTopic))
    /\ \/ /\ Raise
          /\ UNCHANGED <<mi, messages, disk, open, cur, opens>>
       \/ /\ messages' = read_zulip_messages_for_topic(CurSS, CurST)
          /\ disk' = WriteAll(open_page(disk, topic_page_path(CurSS, CurST)),
                              topic_page_path(CurSS, CurST),
                              topic_page_head_chunks(CurSS, CurST, CurStream.name, CurTopic))
          /\ open' = open \cup {topic_page_path(CurSS, CurST)}
          /\ cur' = topic_page_path(CurSS, CurST)
          /\ opens' = Append(opens, topic_page_path(CurSS, CurST))
          /\ mi' = 1
          /\ pc' = "topic_msgs"
          /\ UNCHANGED failure
    /\ UNCHANGED <<input, step, body, si, ti, streams, date_footer_html, complete, last,
                   footerCalls, build, snapshot>>

\* for msg in messages: one round of the loop.  The sequence is lazy, so
\* taking its next element can raise.
TopicMessage ==
    /\ pc = "topic_msgs"
    /\ mi <= Len(messages)
    /\ \/ /\ Raise
          /\ UNCHANGED <<mi, disk>>
       \/ /\ disk' = WriteAll(disk, cur,
                              message_chunks(format_message_html(CurStream.name, CurStream.id,
                                                                 CurTopic, messages[mi])))
          /\ mi' = mi + 1
          /\ UNCHANGED <<pc, failure>>
    /\ UNCHANGED <<input, step, body, si, ti, streams, date_footer_html, messages, open, cur,
                   log, opens, complete, last, footerCalls, build, snapshot>>

\* write_topic_messages from the end of the loop to outfile.close()
TopicFinish ==
    /\ pc = "topic_msgs"
    /\ mi > Len(messages)
    /\ \/ /\ Raise
          /\ UNCHANGED <<ti, mi, messages, disk, open, cur, complete, last>>
       \/ /\ disk' = WriteAll(disk, cur, topic_page_tail_chunks(date_footer_html, page_footer_html))
          /\ open' = outfile_close(open, cur)
          /\ complete' = (cur :> disk'[cur]) @@ complete
          /\ last' = Call("topic", CurStream.name, CurTopic)
          /\ cur' = NoPath
          /\ messages' = <<>>
          /\ mi' = 1
          /\ ti' = ti + 1
          /\ pc' = "topic_loop"
          /\ UNCHANGED failure
    /\ UNCHANGED <<input, step, body, si, streams, date_footer_html, log, opens,
                   footerCalls, build, snapshot>>

\* copytree(repo_root/assets, md_root/assets, dirs_exist_ok=True)
CopyAssets ==
    /\ pc = "assets"
    /\ log' = Append(log, Call("assets", "", ""))
    /\ IF copy_assets(disk).ok
       THEN /\ disk' = copy_assets(disk).disk
            /\ NextStep
            /\ UNCHANGED failure
       ELSE /\ pc' = "failed"
            /\ failure' = "FileExistsError"
            /\ UNCHANGED <<step, disk>>
    /\ UNCHANGED <<input, body, si, ti, mi, streams, date_footer_html, messages, open, cur,
                   opens, complete, last, footerCalls, build, snapshot>>

\* copyfile(repo_root/.nojekyll, md_root/.nojekyll)
CopyNojekyll ==
    /\ pc = "nojekyll"
    /\ log' = Append(log, Call("nojekyll", "", ""))
    /\ disk' = copyfile(disk, ".nojekyll", <<".nojekyll">>)
    /\ NextStep
    /\ UNCHANGED <<input, body, si, ti, mi, streams, date_footer_html, messages, open, cur,
                   opens, complete, last, footerCalls, build, snapshot, failure>>

\* The caller runs build_website again, with the same arguments, on the
\* output tree the previous run left.
Rebuild ==
    /\ pc = "done"
    /\ build < MaxBuilds
    /\ build' = build + 1
    /\ snapshot' = disk
    /\ pc' = "start" /\ step' = 0 /\ body' = 0
    /\ si' = 1 /\ ti' = 1 /\ mi' = 1
    /\ streams' = <<>>
    /\ date_footer_html' = <<"unset">>
    /\ messages' = <<>>
    /\ log' = <<>>
    /\ opens' = <<>>
    /\ complete' = EmptyTree
    /\ last' = NoCall
    /\ footerCalls' = 0
    /\ UNCHANGED <<input, disk, open, cur, failure>>

Next ==
    \/ ReadStreamInfo
    \/ MainOpen
    \/ MainWrite
    \/ WriteCss
    \/ StreamLoop
    \/ StreamOpen
    \/ StreamWrite
    \/ TopicLoop
    \/ TopicOpen
    \/ TopicMessage
    \/ TopicFinish
    \/ CopyAssets
    \/ CopyNojekyll
    \/ Rebuild

Spec == Init /\ [][Next]_vars

\* ---------------------------------------------------------------- claims
PageKinds == {"main", "stream", "topic"}
CopyKinds == {"css", "assets", "nojekyll"}

PagesOfKind(d, k) == {p \in DOMAIN d : p[1] = k}

RECURSIVE TopicTotal(_)
TopicTotal(strs) ==
    IF strs = <<>> THEN 0 ELSE Len(Head(strs).topic_data) + TopicTotal(Tail(strs))

IsPrefix(s, t) == Len(s) <= Len(t) /\ \A i \in 1..Len(s) : s[i] = t[i]

\* C1: a build that completes has produced exactly 1 index page, one
\* stream page per stream and one topic page per topic of the collection.
C1_PageCounts ==
    (pc = "done") =>
        /\ Cardinality(PagesOfKind(disk, "index.html")) = 1
        /\ Cardinality(PagesOfKind(disk, "stream")) = Len(export.streams)
        /\ Cardinality(PagesOfKind(disk, "topic")) = TopicTotal(export.streams)

\* C2 as stated: no page write happens after the stylesheet copy, the
\* assets copy or the .nojekyll copy has happened.
C2_NoPageAfterAnyCopy ==
    \A i, j \in 1..Len(log) :
        (i < j /\ log[i].kind \in CopyKinds) => log[j].kind \notin PageKinds

\* C2 amended: no page write happens after the assets copy or the
\* .nojekyll copy; the stylesheet copy comes after the main page write and
\* before every stream page and topic page write, and a completed build
\* has made all three copies.
C2_AssetsAfterPages ==
    /\ \A i, j \in 1..Len(log) :
          i < j =>
            /\ (log[i].kind \in {"assets", "nojekyll"} => log[j].kind \notin PageKinds)
            /\ (log[j].kind = "css" => log[i].kind = "main")
            /\ (log[i].kind = "css" => log[j].kind # "main")
    /\ (pc = "done") => \A k \in CopyKinds : \E i \in 1..Len(log) : log[i].kind = k

C2_Witness ==
    /\ pc = "done"
    /\ \E i \in 1..Len(log) : log[i].kind = "topic"
    /\ \E i \in 1..Len(log) : log[i].kind = "assets"

\* C3: at most one output file handle is open in every state of a build.
C3_OneHandle == Cardinality(open) <= 1

C3_Witness == pc = "topic_msgs" /\ Cardinality(open) = 1 /\ Len(opens) >= 3

\* The topic and the stream of the page that was closed last.
LastStream == CHOOSE s \in {export.streams[i] : i \in 1..Len(export.streams)} : s.name = last.stream
LastSS == sanitize_stream(mode, LastStream.name, LastStream.id)
LastST == sanitize(mode, last.topic)
LastMessages == read_zulip_messages_for_topic(LastSS, LastST)
LastPage == disk[topic_page_path(LastSS, LastST)]
LastMessageHtml(i) == format_message_html(LastStream.name, LastStream.id, last.topic, LastMessages[i])
Separator == <<"\n\n">>
LastHead ==
    << to_topic_page_head_html(<<html_escape(last.topic), html_escape(last.stream), "title">>),
       topic_page_links_html(LastSS, LastST, last.stream, last.topic),
       <<"style_link">> >>
TopicPageClosed == last.kind = "topic" /\ open = {}

\* C4 as stated: a topic page is the topic head, the navigation links, the
\* stylesheet link, the messages in the reader's order with one separator
\* between consecutive messages, the computed footer and the page footer.
C4_SeparatorsBetween ==
    TopicPageClosed =>
        LET n == Len(LastMessages)
            seps == IF n = 0 THEN 0 ELSE n - 1
        IN  /\ Len(LastPage) = 3 + n + seps + 2
            /\ SubSeq(LastPage, 1, 3) = LastHead
            /\ \A i \in 1..n : LastPage[3 + 2 * i - 1] = LastMessageHtml(i)
            /\ \A i \in 1..seps : LastPage[3 + 2 * i] = Separator
            /\ LastPage[Len(LastPage) - 1] = date_footer_html
            /\ LastPage[Len(LastPage)] = page_footer_html

\* C4 amended: a topic page is the topic head, the navigation links, the
\* stylesheet link, then for every message of the reader, once and in the
\* reader's order, its rendered fragment followed by one separator (the
\* last message included), then the computed footer and the page footer;
\* the shared page head is not on the page.
C4_SeparatorAfterEach ==
    TopicPageClosed =>
        LET n == Len(LastMessages)
        IN  /\ Len(LastPage) = 3 + 2 * n + 2
            /\ SubSeq(LastPage, 1, 3) = LastHead
            /\ \A i \in 1..n : /\ LastPage[3 + 2 * i - 1] = LastMessageHtml(i)
                               /\ LastPage[3 + 2 * i] = Separator
            /\ LastPage[Len(LastPage) - 1] = date_footer_html
            /\ LastPage[Len(LastPage)] = page_footer_html
            /\ \A i \in 1..Len(LastPage) : LastPage[i] # page_head_html

C4_Witness == TopicPageClosed /\ Len(LastMessages) >= 2 /\ pc = "topic_loop"

\* C5: the footer is computed once per build, from the stream info that
\* supplies the streams, and the footer on every page closed by the build
\* is that value.
C5_OneFooter ==
    /\ footerCalls <= 1
    /\ (step >= 1) =>
          /\ footerCalls = 1
          /\ streams = export.streams
          /\ date_footer_html = last_updated_footer_html(export)
    /\ \A p \in DOMAIN complete :
          /\ Len(complete[p]) >= 2
          /\ complete[p][Len(complete[p]) - 1] = date_footer_html

C5_Witness ==
    /\ pc = "done"
    /\ PagesOfKind(complete, "index.html") # {}
    /\ PagesOfKind(complete, "stream") # {}
    /\ PagesOfKind(complete, "topic") # {}

\* C6: when a collaborator call fails the build stops there, and every
\* page the build had closed before the failure is still in the output
\* tree as it was closed.
C6_ClosedPagesKept ==
    (pc = "failed") => \A p \in DOMAIN complete : p \in DOMAIN disk /\ disk[p] = complete[p]

\* C7: a second run with the same input ends, and leaves the output tree
\* the first run left.
C7_Idempotent ==
    (build >= 2 /\ pc \in {"done", "failed"} /\ failure # "collaborator") =>
        (pc = "done" /\ disk = snapshot)

C7_Witness == build = 2 /\ pc = "done" /\ PagesOfKind(disk, "topic") # {}

StreamCalls(s) ==
    <<Call("stream", s.name, "")>> \o
    [i \in 1..Len(s.topic_data) |-> Call("topic", s.name, s.topic_data[i])]

RECURSIVE AllStreamCalls(_)
AllStreamCalls(strs) ==
    IF strs = <<>> THEN <<>> ELSE StreamCalls(Head(strs)) \o AllStreamCalls(Tail(strs))

IsPageCall(e) == e.kind \in PageKinds

\* C8: the page writers are called in this order, each once: the main
\* page, then per stream, in the collection's order, the stream's page
\* followed by the stream's topic pages in the topic mapping's order.
C8_TraversalOrder ==
    LET expected == <<Call("main", "", "")>> \o AllStreamCalls(export.streams)
        calls == SelectSeq(log, IsPageCall)
    IN  /\ IsPrefix(calls, expected)
        /\ (pc = "done") => calls = expected

C8_Witness ==
    /\ pc = "done"
    /\ Len(export.streams) >= 2
    /\ Len(export.streams[1].topic_data) >= 2
    /\ Len(export.streams[2].topic_data) >= 1

\* C9: no two page writes of one build open the same output file.
C9_DisjointPaths ==
    \A i, j \in 1..Len(opens) : i < j => opens[i] # opens[j]

\* C10: no output handle is open once a failure has left the page writer.
C10_HandleReleased == (pc = "failed") => open = {}
====
